---- MODULE Spec2Model ----
(***************************************************************************)
(* A model of the Pac-Man simulation of tb_pacman (src/tb_pacman/src/      *)
(* pacman.rs): tiles and board, the tile/world geometry, the movement AI,  *)
(* Mob::update and the per-tick State::update_mut.                         *)
(*                                                                         *)
(* Conventions.  Option<T> is a sequence of length 0 (None) or 1 (Some).   *)
(* A Vec or VecDeque is a sequence; Rust's 0-based index i is element i+1. *)
(* Enemy ids inside EnemyPlayerState events stay 0-based, as in the code.  *)
(***************************************************************************)
EXTENDS Integers, Sequences, FiniteSets, TLC

VARIABLES config, score, lives, level, vulnerability_timer,
          enemies_caught_multiplier, lives_gained, player, enemies, board,
          aborted, last

vars == <<config, score, lives, level, vulnerability_timer,
          enemies_caught_multiplier, lives_gained, player, enemies, board,
          aborted, last>>

(***************************************************************************)
(* Bounds of the model.                                                    *)
(***************************************************************************)
\* update_mut is explored while level <= MaxLevel.
MaxLevel == 1
\* update_mut is explored while the player has died fewer than MaxDeaths
\* times, and after the death that follows them if it left the board complete.
MaxDeaths == 1
\* update_mut is explored while every mob is within MaxOffBoard tiles of the grid.
MaxOffBoard == 1
\* update_mut is explored while the player's history holds at most MaxHistory ids.
MaxHistory == 2
MaxGridRows == 2
MaxGridCols == 1
MaxQueryIndex == 2

(***************************************************************************)
(* Geometry: screen::TILE_SIZE, world::SCALE, world::TILE_SIZE.            *)
(***************************************************************************)
SCREEN_TILE_SIZE == 7
SCALE == 32
TILE_SIZE == SCREEN_TILE_SIZE * SCALE

None == << >>
Some(v) == << v >>
is_none(o) == Len(o) = 0
is_some(o) == Len(o) = 1
unwrap(o) == o[1]

\* The sequence a function over 1 .. n denotes (Iterator::collect).
collect(f) == f \o << >>

Abs(n) == IF n < 0 THEN -n ELSE n
Signum(n) == IF n < 0 THEN -1 ELSE IF n > 0 THEN 1 ELSE 0
\* Rust's integer division truncates toward zero.
TruncDiv(a, b) == IF a >= 0 THEN a \div b ELSE -((-a) \div b)

WorldPoint(x, y) == [x |-> x, y |-> y]
TilePoint(tx, ty) == [tx |-> tx, ty |-> ty]

to_tile(p) ==
    LET tx0 == TruncDiv(p.x, TILE_SIZE)
        ty0 == TruncDiv(p.y, TILE_SIZE)
    IN  TilePoint(IF p.x < 0 THEN tx0 - 1 ELSE tx0,
                  IF p.y < 0 THEN ty0 - 1 ELSE ty0)

to_world(t) == WorldPoint(t.tx * TILE_SIZE, t.ty * TILE_SIZE)

Directions == <<"Up", "Down", "Left", "Right">>

\* toybox_core::Direction::delta, in screen coordinates (y grows downward).
delta(dir) ==
    CASE dir = "Up"    -> <<0, -1>>
      [] dir = "Down"  -> <<0, 1>>
      [] dir = "Left"  -> <<-1, 0>>
      [] dir = "Right" -> <<1, 0>>

translate(t, dx, dy) == TilePoint(t.tx + dx, t.ty + dy)
tile_step(t, dir) == translate(t, delta(dir)[1], delta(dir)[2])

(***************************************************************************)
(* Tiles.                                                                  *)
(***************************************************************************)
Tiles == {"Wall", "Pellet", "PowerPellet", "Empty", "Teleport", "House"}

\* Tile::new_from_char: Ok(tile) as Some(tile), Err as None.
new_from_char(c) ==
    CASE c = "e" -> Some("Empty")
      [] c = "=" -> Some("Pellet")
      [] c = "p" -> Some("PowerPellet")
      [] c = "#" -> Some("Wall")
      [] c = "h" -> Some("House")
      [] c = "t" -> Some("Teleport")
      [] OTHER   -> None

walkable(tile) == tile \notin {"House", "Wall"}
\* is_still_collectable that knows the Pellet only.
is_still_collectable_pellet_only(tile) == tile = "Pellet"

is_still_collectable(tile) == tile \in {"Pellet", "PowerPellet"}

(***************************************************************************)
(* Board.  tiles is a sequence of rows; a row is a sequence of tiles.      *)
(***************************************************************************)
\* Vec::get on both axes; an index that `as usize` makes out of range (a
\* negative i32 included) falls back to Tile::Empty.
\* get_tile that reads a Wall outside the grid.
get_tile_wall_outside(b, t) ==
    IF t.ty >= 0 /\ t.ty < Len(b.tiles) /\ t.tx >= 0 /\ t.tx < Len(b.tiles[t.ty + 1])
    THEN b.tiles[t.ty + 1][t.tx + 1]
    ELSE "Wall"

get_tile(b, t) ==
    IF t.ty >= 0 /\ t.ty < Len(b.tiles) /\ t.tx >= 0 /\ t.tx < Len(b.tiles[t.ty + 1])
    THEN b.tiles[t.ty + 1][t.tx + 1]
    ELSE "Empty"

is_corner(b, tx, ty) ==
    /\ (tx = 0 \/ tx = b.width - 1)
    /\ (ty = 0 \/ ty = b.height - 1)

can_move(b, position, dir) ==
    LET tp == tile_step(position, dir)
    IN  IF walkable(get_tile(b, tp)) THEN Some(tp) ELSE None

tile_id(b, t) ==
    IF t.ty < 0 \/ t.tx < 0 \/ t.ty >= b.height \/ t.tx >= b.width
    THEN None
    ELSE Some(t.ty * b.width + t.tx)

is_junction(b, t) ==
    IF is_some(tile_id(b, t)) THEN unwrap(tile_id(b, t)) \in b.junctions ELSE FALSE

\* get_junction_id that answers the id of every tile of the grid, junction
\* or not.
get_junction_id_any_tile(b, t) == tile_id(b, t)
get_junction_id(b, t) ==
    IF is_some(tile_id(b, t)) /\ unwrap(tile_id(b, t)) \in b.junctions
    THEN tile_id(b, t)
    ELSE None

is_tp(b, t) == get_tile(b, t) = "Teleport"

\* The junction set init_junctions inserts for the tiles of b.
walkable_neighbors(b, x, y) ==
    Cardinality({ n \in { <<x + 1, y>>, <<x, y + 1>>, <<x - 1, y>>, <<x, y - 1>> } :
                    walkable(get_tile(b, TilePoint(n[1], n[2]))) })

\* init_junctions counting only the neighbours that lie inside the grid.
init_junctions_in_grid(b) ==
    UNION { { y * b.width + x : x \in
                { x \in 0 .. (Len(b.tiles[y + 1]) - 1) :
                    /\ walkable(b.tiles[y + 1][x + 1])
                    /\ (Cardinality({ n \in { <<x + 1, y>>, <<x, y + 1>>,
                                               <<x - 1, y>>, <<x, y - 1>> } :
                            /\ is_some(tile_id(b, TilePoint(n[1], n[2])))
                            /\ walkable(get_tile(b, TilePoint(n[1], n[2]))) }) > 2
                        \/ is_corner(b, x, y)) } } :
            y \in 0 .. (Len(b.tiles) - 1) }

init_junctions(b) ==
    UNION { { y * b.width + x : x \in
                { x \in 0 .. (Len(b.tiles[y + 1]) - 1) :
                    /\ walkable(b.tiles[y + 1][x + 1])
                    /\ (walkable_neighbors(b, x, y) > 2 \/ is_corner(b, x, y)) } } :
            y \in 0 .. (Len(b.tiles) - 1) }

\* Board::try_new on a list of lines, each a sequence of characters.
\* Ok(board) as Some(board); Err (an unmapped character) as None.
Board_try_new(lines) ==
    IF \E r \in 1 .. Len(lines) : \E c \in 1 .. Len(lines[r]) :
           is_none(new_from_char(lines[r][c]))
    THEN None
    ELSE LET tiles == collect([r \in 1 .. Len(lines) |->
                          collect([c \in 1 .. Len(lines[r]) |->
                                      unwrap(new_from_char(lines[r][c]))])])
             b0 == [tiles |-> tiles, width |-> Len(tiles[1]), height |-> Len(tiles),
                    junctions |-> {}]
         IN  Some([b0 EXCEPT !.junctions = init_junctions(b0)])

\* Board::try_new reads tiles[0] once every row is mapped: with no rows the
\* index is out of range and the call panics.
Board_try_new_panics(lines) ==
    /\ \A r \in 1 .. Len(lines) : \A c \in 1 .. Len(lines[r]) :
           is_some(new_from_char(lines[r][c]))
    /\ Len(lines) = 0

board_complete(b) ==
    ~ \E r \in 1 .. Len(b.tiles) : \E c \in 1 .. Len(b.tiles[r]) :
          is_still_collectable(b.tiles[r][c])

\* `self.tiles[tile.ty as usize][tile.tx as usize]` panics out of range.
tile_index_ok(b, t) ==
    t.ty >= 0 /\ t.ty < Len(b.tiles) /\ t.tx >= 0 /\ t.tx < Len(b.tiles[t.ty + 1])

\* collect_pellet / collect_power_pellet: [board, changed]; callers test
\* tile_index_ok first (the panic).
\* collect_pellet that reports the pellet and leaves it on the tile.
collect_pellet_keeps_tile(b, t) ==
    [board |-> b, changed |-> b.tiles[t.ty + 1][t.tx + 1] = "Pellet"]

collect_pellet(b, t) ==
    IF b.tiles[t.ty + 1][t.tx + 1] # "Pellet"
    THEN [board |-> b, changed |-> FALSE]
    ELSE [board |-> [b EXCEPT !.tiles[t.ty + 1][t.tx + 1] = "Empty"], changed |-> TRUE]

collect_power_pellet(b, t) ==
    IF b.tiles[t.ty + 1][t.tx + 1] # "PowerPellet"
    THEN [board |-> b, changed |-> FALSE]
    ELSE [board |-> [b EXCEPT !.tiles[t.ty + 1][t.tx + 1] = "Empty"], changed |-> TRUE]

(***************************************************************************)
(* MovementAI.  An ai is [kind, start, start_dir, dir]; for kind "Player"  *)
(* the last three fields are unused placeholders.                          *)
(***************************************************************************)
PlayerAI == [kind |-> "Player", start |-> TilePoint(0, 0), start_dir |-> "Up", dir |-> "Up"]
EnemyRandomMvmt(start, start_dir) ==
    [kind |-> "EnemyRandomMvmt", start |-> start, start_dir |-> start_dir, dir |-> start_dir]

AI_reset(ai) ==
    IF ai.kind = "Player" THEN ai ELSE [ai EXCEPT !.dir = ai.start_dir]

\* toybox_core::Input, the four direction buttons.
NoButtons == [left |-> FALSE, right |-> FALSE, up |-> FALSE, down |-> FALSE]

\* The player's arm of choose_next_tile: the direction the buttons select.
\* input_direction with the vertical buttons read before the horizontal ones.
input_direction_vertical_first(buttons) ==
    IF buttons.up THEN Some("Up")
    ELSE IF buttons.down THEN Some("Down")
    ELSE IF buttons.left THEN Some("Left")
    ELSE IF buttons.right THEN Some("Right")
    ELSE None

input_direction(buttons) ==
    IF buttons.left THEN Some("Left")
    ELSE IF buttons.right THEN Some("Right")
    ELSE IF buttons.up THEN Some("Up")
    ELSE IF buttons.down THEN Some("Down")
    ELSE None

\* The directions whose adjacent tile is walkable, in the order of `directions`.
eligible(b, position) ==
    SelectSeq(Directions, LAMBDA d : is_some(can_move(b, position, d)))

\* choose_next_tile whose Player arm, given no button, asks the generator
\* for one of the eligible directions.
choose_next_tile_player_draws(ai, position, buttons, b, pick) ==
    IF ai.kind = "Player" /\ is_some(input_direction(buttons))
    THEN [ai |-> ai,
          target |-> can_move(b, position, unwrap(input_direction(buttons))),
          panic |-> FALSE]
    ELSE IF (ai.kind = "Player" \/ is_junction(b, position)
                \/ is_none(can_move(b, position, ai.dir)))
            /\ Len(eligible(b, position)) > 0
    THEN [ai |-> ai,
          target |-> can_move(b, position,
                        eligible(b, position)[((pick - 1) % Len(eligible(b, position))) + 1]),
          panic |-> FALSE]
    ELSE [ai |-> ai, target |-> can_move(b, position, ai.dir), panic |-> FALSE]

\* choose_next_tile whose enemy arm chooses anew at every tile, junction
\* or not, heading free or not.
choose_next_tile_always_redecides(ai, position, buttons, b, pick) ==
    IF ai.kind = "Player"
    THEN [ai |-> ai,
          target |-> IF is_none(input_direction(buttons)) THEN None
                     ELSE can_move(b, position, unwrap(input_direction(buttons))),
          panic |-> FALSE]
    ELSE IF Len(eligible(b, position)) = 0
    THEN [ai |-> ai, target |-> None, panic |-> TRUE]
    ELSE [ai |-> [ai EXCEPT !.dir = eligible(b, position)[((pick - 1) % Len(eligible(b, position))) + 1]],
          target |-> can_move(b, position,
                        eligible(b, position)[((pick - 1) % Len(eligible(b, position))) + 1]),
          panic |-> FALSE]
\* choose_next_tile: [ai, target, panic].  pick stands for the value the
\* random generator yields for SliceRandom::choose: an index into eligible.
choose_next_tile(ai, position, buttons, b, pick) ==
    IF ai.kind = "Player"
    THEN LET input == input_direction(buttons)
         IN  [ai |-> ai,
              target |-> IF is_none(input) THEN None
                         ELSE IF walkable(get_tile(b, tile_step(position, unwrap(input))))
                              THEN Some(tile_step(position, unwrap(input)))
                              ELSE None,
              panic |-> FALSE]
    ELSE LET tp_default == can_move(b, position, ai.dir)
             el == eligible(b, position)
         IN  IF is_junction(b, position) \/ is_none(tp_default)
             THEN IF Len(el) = 0
                  THEN [ai |-> ai, target |-> None, panic |-> TRUE]
                  ELSE LET d == el[((pick - 1) % Len(el)) + 1]
                       IN  [ai |-> [ai EXCEPT !.dir = d],
                            target |-> can_move(b, position, d),
                            panic |-> FALSE]
             ELSE [ai |-> ai, target |-> tp_default, panic |-> FALSE]

(***************************************************************************)
(* Mob.                                                                    *)
(***************************************************************************)
Mob_new(ai, position, speed) ==
    [ai |-> ai, position |-> position, step |-> None, caught |-> FALSE,
     vulnerable |-> FALSE, speed |-> speed, history |-> << >>]

new_player(position, speed) == Mob_new(PlayerAI, position, speed)

is_player(mob) == mob.ai.kind = "Player"

change_speed(mob, new_speed) == [mob EXCEPT !.speed = new_speed]

\* Mob::teleport that moves the mob and leaves its step target in place.
Mob_teleport_keeps_step(mob) ==
    [mob EXCEPT !.position =
                    to_world(TilePoint(IF to_tile(mob.position).tx = 0 THEN 19 ELSE 1,
                                       to_tile(mob.position).ty))]
Mob_teleport(mob) ==
    LET new_x == IF to_tile(mob.position).tx = 0 THEN 19 ELSE 1
    IN  [mob EXCEPT !.step = None,
                    !.position = to_world(TilePoint(new_x, to_tile(mob.position).ty))]

\* Mob::reset that leaves the heading and the vulnerable flag as they are.
Mob_reset_position_only(mob, player_start) ==
    [mob EXCEPT !.step = None,
                !.position = IF mob.ai.kind = "Player" THEN to_world(player_start)
                             ELSE to_world(mob.ai.start),
                !.history = << >>,
                !.caught = FALSE]

Mob_reset(mob, player_start) ==
    [mob EXCEPT !.step = None,
                !.ai = AI_reset(mob.ai),
                !.position = IF mob.ai.kind = "Player" THEN to_world(player_start)
                             ELSE to_world(mob.ai.start),
                !.history = << >>,
                !.caught = FALSE,
                !.vulnerable = FALSE]

push_front(h, v) == <<v>> \o h
pop_back(h) == SubSeq(h, 1, Len(h) - 1)

\* The first statement of Mob::update: an empty history takes the junction
\* the mob stands on.
seed_history(mob, b) ==
    IF Len(mob.history) = 0 /\ is_some(get_junction_id(b, to_tile(mob.position)))
    THEN [mob EXCEPT !.history = push_front(mob.history,
                                            unwrap(get_junction_id(b, to_tile(mob.position))))]
    ELSE mob

\* "Animate/step player movement" of Mob::update, with the write of
\* next_target to self.step.
\* move_toward_step without the snap: a mob short of its target still moves
\* by its full speed.
move_toward_step_overshoots(mob, b) ==
    IF is_none(mob.step) THEN mob
    ELSE LET target == unwrap(mob.step)
             world_target == to_world(target)
             dx == world_target.x - mob.position.x
             dy == world_target.y - mob.position.y
             jid == get_junction_id(b, target)
             arrived == IF is_some(jid) THEN push_front(mob.history, unwrap(jid))
                        ELSE mob.history
         IN  IF dx = 0 /\ dy = 0
             THEN [mob EXCEPT !.history = arrived, !.step = None]
             ELSE [mob EXCEPT !.position = WorldPoint(mob.position.x + mob.speed * Signum(dx),
                                                      mob.position.y + mob.speed * Signum(dy))]

move_toward_step(mob, b) ==
    IF is_none(mob.step) THEN mob
    ELSE LET target == unwrap(mob.step)
             world_target == to_world(target)
             dx == world_target.x - mob.position.x
             dy == world_target.y - mob.position.y
             jid == get_junction_id(b, target)
             arrived == IF is_some(jid) THEN push_front(mob.history, unwrap(jid))
                        ELSE mob.history
         IN  IF dx = 0 /\ dy = 0
             THEN [mob EXCEPT !.history = arrived, !.step = None]
             ELSE IF Abs(dx) < mob.speed /\ Abs(dy) < mob.speed
             THEN [mob EXCEPT !.position = WorldPoint(mob.position.x + dx, mob.position.y + dy),
                              !.history = arrived, !.step = None]
             ELSE [mob EXCEPT !.position = WorldPoint(mob.position.x + mob.speed * Signum(dx),
                                                      mob.position.y + mob.speed * Signum(dy))]

\* BoardUpdate with the two counters update_mut reads.
BoardUpdate(pellets, power_pellets) ==
    [pellets_collected |-> pellets, power_pellets_collected |-> power_pellets]

happened(u) == u.pellets_collected # 0 \/ u.power_pellets_collected # 0

into_option(u) == IF happened(u) THEN Some(u) ELSE None

\* check_pellets_every_tile from line 632 on: [board, history, update, panic];
\* front().unwrap() panics on an empty history.
truncate_history(b, score_change, player_history) ==
    IF happened(score_change) /\ Len(player_history) = 0
    THEN [board |-> b, history |-> player_history, update |-> score_change, panic |-> TRUE]
    ELSE [board |-> b,
          history |-> IF happened(score_change) THEN <<player_history[1]>>
                      ELSE player_history,
          update |-> score_change, panic |-> FALSE]

\* Lines 625-631, given the result r1 of collect_pellet.
count_collected(r1, r2, player_history) ==
    truncate_history(r2.board,
                     BoardUpdate(IF r1.changed THEN 1 ELSE 0,
                                 IF r1.changed THEN 0 ELSE IF r2.changed THEN 1 ELSE 0),
                     player_history)

collect_both(r1, current_tile, player_history) ==
    count_collected(r1, collect_power_pellet(r1.board, current_tile), player_history)

check_pellets_at(b, current_tile, player_history) ==
    IF ~ tile_index_ok(b, current_tile)
    THEN [board |-> b, history |-> player_history, update |-> BoardUpdate(0, 0),
          panic |-> TRUE]
    ELSE collect_both(collect_pellet(b, current_tile), current_tile, player_history)

check_pellets_every_tile(b, player_position, player_history) ==
    check_pellets_at(b, to_tile(player_position), player_history)

\* Mob::update yields [mob, board, update, panic]; update is Option<BoardUpdate>.
\* Lines 426-445 of it, for the mob m3 that has its step target.
manage_history(m3, cp, b, history_limit) ==
    IF is_player(m3)
    THEN [mob |-> [m3 EXCEPT !.history = cp.history],
          board |-> cp.board,
          update |-> into_option(cp.update),
          panic |-> cp.panic]
    ELSE [mob |-> IF Len(m3.history) > history_limit
                  THEN [m3 EXCEPT !.history = pop_back(m3.history)] ELSE m3,
          board |-> b, update |-> None, panic |-> FALSE]

collect_or_cap(m3, b, history_limit) ==
    manage_history(m3,
                   IF is_player(m3) THEN check_pellets_every_tile(b, m3.position, m3.history)
                   ELSE None,
                   b, history_limit)

\* Lines 421-425, for the mob m2 that has moved and the answer ch of
\* choose_next_tile.
take_target(m2, ch, b, history_limit) ==
    IF ch.panic
    THEN [mob |-> m2, board |-> b, update |-> None, panic |-> TRUE]
    ELSE collect_or_cap([m2 EXCEPT !.ai = ch.ai, !.step = ch.target], b, history_limit)

\* choose_if_idle that asks the AI in every update, a step target set or not.
choose_in_every_update(m2, buttons, b, history_limit, pick) ==
    take_target(m2, choose_next_tile(m2.ai, to_tile(m2.position), buttons, b, pick),
                b, history_limit)
choose_if_idle(m2, buttons, b, history_limit, pick) ==
    IF is_none(m2.step)
    THEN take_target(m2, choose_next_tile(m2.ai, to_tile(m2.position), buttons, b, pick),
                     b, history_limit)
    ELSE collect_or_cap(m2, b, history_limit)

Mob_update(mob, buttons, b, history_limit, pick) ==
    choose_if_idle(move_toward_step(seed_history(mob, b), b), buttons, b,
                   history_limit, pick)

(***************************************************************************)
(* Configuration (struct Pacman) and the boards of the model.  A board     *)
(* text is a list of lines, each a sequence of one-character strings.      *)
(***************************************************************************)
\* The text of resources/pacman_default_board that DEFAULT_BOARD parses,
\* here a cross of five walkable tiles around the junction (2, 2) with one
\* power pellet and one pellet.
PACMAN_BOARD ==
    << <<"#", "#", "#", "#", "#">>,
       <<"#", "#", "p", "#", "#">>,
       <<"#", "=", "e", "e", "#">>,
       <<"#", "#", "e", "#", "#">>,
       <<"#", "#", "#", "#", "#">> >>

\* A configured board that is not the default one: a one-row corridor with
\* a Teleport tile at either end and two power pellets.  The tiles above
\* and below the row read as Empty, so every tile of it is a junction.
CORRIDOR_BOARD ==
    << <<"t", "p", "=", "p", "t">> >>

\* The configurations of the model.  CrossConfig plays on the default board
\* with the scores and lives of Pacman::default and with speeds, counts and
\* thresholds scaled to the small board: an enemy crosses a tile per tick
\* (in two ticks when vulnerable), the player in two.
CrossConfig ==
    [board |-> PACMAN_BOARD,
     player_start |-> TilePoint(2, 2),
     start_lives |-> 3,
     history_limit |-> 2,
     enemy_starting_speed |-> 228,
     life_gain_threshold |-> 600,
     score_increase_per_pellet |-> 10,
     score_increase_per_power_pellet |-> 50,
     score_increase_base_per_ghost_catch |-> 200,
     player_speed |-> 120,
     vulnerable_time |-> 6,
     immobilized_time |-> 3,
     start_immobilized_base |-> 2,
     enemies |-> << EnemyRandomMvmt(TilePoint(3, 2), "Up"),
                    EnemyRandomMvmt(TilePoint(3, 2), "Up") >>]

CorridorConfig ==
    [CrossConfig EXCEPT !.board = CORRIDOR_BOARD,
                          !.player_start = TilePoint(1, 0),
                          !.enemies = << EnemyRandomMvmt(TilePoint(3, 0), "Right") >>]

Configs == {CrossConfig, CorridorConfig}

\* The inputs update_mut is given.
Buttons ==
    { [NoButtons EXCEPT !.left = TRUE], [NoButtons EXCEPT !.right = TRUE],
      [NoButtons EXCEPT !.up = TRUE], [NoButtons EXCEPT !.down = TRUE],
      NoButtons }

\* Left and right held together.
LeftAndRight == [NoButtons EXCEPT !.left = TRUE, !.right = TRUE]

\* The values one draw of the generator can select among four directions.
Picks == 1 .. 4

(***************************************************************************)
(* State.  A StateCore s is [score, lives, level, vulnerability_timer,     *)
(* enemies_caught_multiplier, lives_gained, player, enemies, board].       *)
(***************************************************************************)
DEFAULT_BOARD == unwrap(Board_try_new(PACMAN_BOARD))
fast_new == DEFAULT_BOARD

make_enemy(ai, speed) ==
    Mob_reset(Mob_new(ai, to_world(TilePoint(0, 0)), speed), TilePoint(0, 0))

\* State::reset(player_death).
State_reset(cfg, s, player_death) ==
    [s EXCEPT !.player = Mob_reset(s.player, cfg.player_start),
              !.enemies = IF ~ player_death
                          THEN collect([i \in 1 .. Len(s.enemies) |->
                                   Mob_reset(s.enemies[i], cfg.player_start)])
                          ELSE s.enemies]

\* State::try_new for a configuration whose board parses.
State_try_new(cfg) ==
    LET core == [score |-> 0,
                 lives |-> cfg.start_lives,
                 level |-> 1,
                 vulnerability_timer |-> 0,
                 enemies_caught_multiplier |-> 1,
                 lives_gained |-> 0,
                 player |-> new_player(to_world(cfg.player_start), cfg.player_speed),
                 enemies |-> collect([i \in 1 .. Len(cfg.enemies) |->
                                 make_enemy(cfg.enemies[i], cfg.enemy_starting_speed)]),
                 board |-> unwrap(Board_try_new(cfg.board))]
    IN  State_reset(cfg, core, TRUE)

\* EnemyPlayerState: Miss, PlayerDeath, EnemyCatch(eid) with eid 0-based.
Miss == [kind |-> "Miss", eid |-> -1]
PlayerDeath == [kind |-> "PlayerDeath", eid |-> -1]
EnemyCatch(eid) == [kind |-> "EnemyCatch", eid |-> eid]

\* check_enemy_player_collision comparing world positions, not tiles.
check_enemy_player_collision_exact(s, enemy, enemy_id) ==
    IF s.player.position = enemy.position
    THEN IF enemy.vulnerable THEN EnemyCatch(enemy_id) ELSE PlayerDeath
    ELSE Miss

check_enemy_player_collision(s, enemy, enemy_id) ==
    IF to_tile(s.player.position) = to_tile(enemy.position)
    THEN IF enemy.vulnerable THEN EnemyCatch(enemy_id) ELSE PlayerDeath
    ELSE Miss

check_teleport(s, mob) == is_tp(s.board, to_tile(mob.position))

(***************************************************************************)
(* State::update_mut, statement by statement.                              *)
(***************************************************************************)
\* Lines 952-957: the score after the collection delta is credited.
\* credit_collection with the two amounts exchanged.
credit_collection_swapped(cfg, sc, score_change) ==
    sc + score_change.pellets_collected * cfg.score_increase_per_power_pellet
       + score_change.power_pellets_collected * cfg.score_increase_per_pellet

credit_collection(cfg, sc, score_change) ==
    sc + score_change.pellets_collected * cfg.score_increase_per_pellet
       + score_change.power_pellets_collected * cfg.score_increase_per_power_pellet

\* arm_vulnerability that marks only the first enemy vulnerable.
arm_vulnerability_first_enemy(cfg, s, score_change) ==
    IF score_change.power_pellets_collected > 0
    THEN [s EXCEPT !.vulnerability_timer = cfg.vulnerable_time,
                   !.enemies_caught_multiplier = 1,
                   !.enemies = collect([i \in 1 .. Len(s.enemies) |->
                                   [s.enemies[i] EXCEPT !.vulnerable = (i = 1)]])]
    ELSE s

\* Lines 959-966: a collected power pellet arms the vulnerability.
arm_vulnerability(cfg, s, score_change) ==
    IF score_change.power_pellets_collected > 0
    THEN [s EXCEPT !.vulnerability_timer = cfg.vulnerable_time,
                   !.enemies_caught_multiplier = 1,
                   !.enemies = collect([i \in 1 .. Len(s.enemies) |->
                                   [s.enemies[i] EXCEPT !.vulnerable = TRUE]])]
    ELSE s

\* clear_vulnerability that never clears a flag.
clear_vulnerability_never(s) == s

\* Lines 968-973: a timer at zero clears every enemy's vulnerable flag.
clear_vulnerability(s) ==
    IF s.vulnerability_timer = 0
    THEN [s EXCEPT !.enemies = collect([i \in 1 .. Len(s.enemies) |->
                                   [s.enemies[i] EXCEPT !.vulnerable = FALSE]])]
    ELSE s

\* Lines 975-979: the player's teleport.
teleport_player(s) ==
    IF check_teleport(s, s.player)
    THEN [s EXCEPT !.player = Mob_teleport(s.player)]
    ELSE s

\* decrement_timer that counts down whatever the timer holds.
decrement_timer_unguarded(s) ==
    [s EXCEPT !.vulnerability_timer = s.vulnerability_timer - 1]
\* Lines 980-983.
decrement_timer(s) ==
    IF s.vulnerability_timer > 0
    THEN [s EXCEPT !.vulnerability_timer = s.vulnerability_timer - 1]
    ELSE s

\* Lines 989-995 and 1019-1023: the non-Miss outcomes of one pass over the
\* enemies, in enemy order.
RECURSIVE collisions_from(_, _)
collisions_from(s, i) ==
    IF i > Len(s.enemies) THEN << >>
    ELSE LET state == check_enemy_player_collision(s, s.enemies[i], i - 1)
         IN  (IF state # Miss THEN <<state>> ELSE << >>) \o collisions_from(s, i + 1)

collisions(s) == collisions_from(s, 1)

\* Lines 997-1003: the speed each enemy is given.
enemy_speed_base_only(cfg, e) == cfg.enemy_starting_speed

enemy_speed(cfg, e) ==
    IF e.vulnerable THEN cfg.enemy_starting_speed - 4 ELSE cfg.enemy_starting_speed

set_enemy_speeds(cfg, s) ==
    [s EXCEPT !.enemies = collect([i \in 1 .. Len(s.enemies) |->
                              change_speed(s.enemies[i], enemy_speed(cfg, s.enemies[i]))])]

\* Lines 1007-1015: every enemy's update, in enemy order: [enemies, panic].
move_enemies(cfg, s, picks) ==
    LET r == collect([i \in 1 .. Len(s.enemies) |->
                 Mob_update(s.enemies[i], NoButtons, s.board, cfg.history_limit, picks[i])])
    IN  [enemies |-> collect([i \in 1 .. Len(s.enemies) |-> r[i].mob]),
         panic |-> \E i \in 1 .. Len(s.enemies) : r[i].panic]

\* Lines 1017-1028: the enemies check_teleport flags (0-based ids).
teleport_vec(s) ==
    { i - 1 : i \in { j \in 1 .. Len(s.enemies) : check_teleport(s, s.enemies[j]) } }

\* Lines 1030-1036.
teleport_enemies(s, tv) ==
    [s EXCEPT !.enemies = collect([i \in 1 .. Len(s.enemies) |->
                              IF (i - 1) \in tv THEN Mob_teleport(s.enemies[i])
                              ELSE s.enemies[i]])]

\* Line 1042: the initial value of recently_caught.
RECENTLY_CAUGHT_INIT == 5

\* Lines 1054: whether an EnemyCatch(eid) event is processed.
catch_is_new(recently_caught, eid) == recently_caught # eid

\* process_catch that awards the base amount whatever the multiplier is.
process_catch_flat(cfg, s, eid) ==
    [s EXCEPT !.score = s.score + cfg.score_increase_base_per_ghost_catch,
              !.enemies_caught_multiplier = s.enemies_caught_multiplier * 2,
              !.enemies[eid + 1] = Mob_reset(s.enemies[eid + 1], cfg.player_start)]

\* Lines 1059-1063: one processed catch.
process_catch(cfg, s, eid) ==
    [s EXCEPT !.score = s.score + cfg.score_increase_base_per_ghost_catch
                                  * s.enemies_caught_multiplier,
              !.enemies_caught_multiplier = s.enemies_caught_multiplier * 2,
              !.enemies[eid + 1] = Mob_reset(s.enemies[eid + 1], cfg.player_start)]

\* The loop over changes without the break: after a PlayerDeath it goes on
\* to the events recorded later.
RECURSIVE resolve_changes_no_break(_, _, _, _)
resolve_changes_no_break(cfg, acc, changes, k) ==
    IF k > Len(changes) THEN acc
    ELSE LET change == changes[k]
         IN  IF change.kind = "PlayerDeath"
             THEN resolve_changes_no_break(cfg, [acc EXCEPT !.dead = TRUE], changes, k + 1)
             ELSE IF change.kind = "EnemyCatch" /\ catch_is_new(acc.recently_caught, change.eid)
             THEN resolve_changes_no_break(cfg,
                      [s |-> process_catch(cfg, acc.s, change.eid),
                       recently_caught |-> change.eid,
                       dead |-> acc.dead,
                       processed |-> Append(acc.processed,
                           [eid |-> change.eid,
                            award |-> process_catch(cfg, acc.s, change.eid).score
                                      - acc.s.score])],
                      changes, k + 1)
             ELSE resolve_changes_no_break(cfg, acc, changes, k + 1)

\* Lines 1043-1082: the loop over changes.  acc is [s, recently_caught,
\* dead, processed]; processed lists, for each catch the loop awarded, the
\* enemy id and the amount the score rose by.
RECURSIVE resolve_changes(_, _, _, _)
resolve_changes(cfg, acc, changes, k) ==
    IF k > Len(changes) THEN acc
    ELSE LET change == changes[k]
         IN  IF change.kind = "PlayerDeath"
             THEN [acc EXCEPT !.dead = TRUE]
             ELSE IF change.kind = "EnemyCatch" /\ catch_is_new(acc.recently_caught, change.eid)
             THEN resolve_changes(cfg,
                      [s |-> process_catch(cfg, acc.s, change.eid),
                       recently_caught |-> change.eid,
                       dead |-> acc.dead,
                       processed |-> Append(acc.processed,
                           [eid |-> change.eid,
                            award |-> process_catch(cfg, acc.s, change.eid).score
                                      - acc.s.score])],
                      changes, k + 1)
             ELSE resolve_changes(cfg, acc, changes, k + 1)

\* Lines 1084-1087.
\* life_gain granting one life for every multiple of the threshold passed.
life_gain_every_multiple(cfg, s) ==
    IF s.score > (s.lives_gained + 1) * cfg.life_gain_threshold
    THEN [s EXCEPT !.lives = s.lives + ((s.score - 1) \div cfg.life_gain_threshold)
                                  - s.lives_gained,
                   !.lives_gained = (s.score - 1) \div cfg.life_gain_threshold]
    ELSE s

life_gain(cfg, s) ==
    IF s.score > (s.lives_gained + 1) * cfg.life_gain_threshold
    THEN [s EXCEPT !.lives = s.lives + 1, !.lives_gained = s.lives_gained + 1]
    ELSE s

\* player_death without the roll-back of the score.
player_death_keeps_score(cfg, s, pre_update_score) ==
    State_reset(cfg, [s EXCEPT !.lives = s.lives - 1], TRUE)

\* player_death that goes on to the next level when the board is complete.
player_death_then_level(cfg, s, pre_update_score) ==
    IF board_complete(s.board)
    THEN [State_reset(cfg, [s EXCEPT !.lives = s.lives - 1, !.score = pre_update_score],
                      FALSE)
             EXCEPT !.level = s.level + 1, !.vulnerability_timer = 0, !.board = fast_new]
    ELSE State_reset(cfg, [s EXCEPT !.lives = s.lives - 1, !.score = pre_update_score], TRUE)

\* Lines 1090-1093.
player_death(cfg, s, pre_update_score) ==
    State_reset(cfg, [s EXCEPT !.lives = s.lives - 1, !.score = pre_update_score], TRUE)

\* next_level that resets as a player death does and leaves the timer.
next_level_as_death(cfg, s) ==
    IF board_complete(s.board)
    THEN [State_reset(cfg, s, TRUE) EXCEPT !.level = s.level + 1,
                                           !.board = fast_new]
    ELSE s

\* Lines 1095-1103.
next_level(cfg, s) ==
    IF board_complete(s.board)
    THEN [State_reset(cfg, s, FALSE) EXCEPT !.level = s.level + 1,
                                            !.vulnerability_timer = 0,
                                            !.board = fast_new]
    ELSE s

Core ==
    [score |-> score, lives |-> lives, level |-> level,
     vulnerability_timer |-> vulnerability_timer,
     enemies_caught_multiplier |-> enemies_caught_multiplier,
     lives_gained |-> lives_gained, player |-> player, enemies |-> enemies,
     board |-> board]

vulnerable_flags(s) == collect([i \in 1 .. Len(s.enemies) |-> s.enemies[i].vulnerable])

\* Lines 944-967: the result pu of the player's update taken into the state.
take_player_update(cfg, s0, pu) ==
    IF is_some(pu.update)
    THEN arm_vulnerability(cfg,
             [s0 EXCEPT !.player = pu.mob, !.board = pu.board,
                        !.score = credit_collection(cfg, s0.score, unwrap(pu.update))],
             unwrap(pu.update))
    ELSE [s0 EXCEPT !.player = pu.mob, !.board = pu.board]

\* The tile check_teleport finds the mob on, if it is a Teleport tile.
teleport_from(s, mob) ==
    IF check_teleport(s, mob) THEN Some(to_tile(mob.position)) ELSE None

\* The generator outcomes that differ for enemy e: its update consults the
\* generator when it ends its movement with no step target, on a junction
\* or with its heading blocked, and then chooses among eligible.
draws(e, b) ==
    LET m == move_toward_step(seed_history(e, b), b)
        t == to_tile(m.position)
    IN  IF /\ is_none(m.step)
           /\ (is_junction(b, t) \/ is_none(can_move(b, t, m.ai.dir)))
           /\ Len(eligible(b, t)) > 0
        THEN 1 .. Len(eligible(b, t))
        ELSE {1}

PickChoices(s) ==
    LET dom == collect([i \in 1 .. Len(s.enemies) |-> draws(s.enemies[i], s.board)])
    IN  { picks \in [1 .. Len(s.enemies) -> Picks] :
            \A i \in 1 .. Len(s.enemies) : picks[i] \in dom[i] }

(***************************************************************************)
(* The state machine.  last records what the latest update_mut observed    *)
(* between its statements; window_catches counts the catches processed     *)
(* since the latest power pellet was collected; prev_expired tells whether *)
(* the update_mut before it decremented the timer to zero, prev_vulnerable *)
(* the flags that one's second collision pass saw.                         *)
(***************************************************************************)
\* How an enemy at q lies to the player at p when a collision check runs:
\* on the same world point, elsewhere in the same tile, on an orthogonally
\* or diagonally next tile at tile distance one, or further apart.
tile_distance(p, q) ==
    Abs(to_tile(p).tx - to_tile(q).tx) + Abs(to_tile(p).ty - to_tile(q).ty)

contact(p, q) ==
    IF p = q THEN "point"
    ELSE IF tile_distance(p, q) = 0 THEN "tile"
    ELSE IF tile_distance(p, q) = 1 THEN "adjacent"
    ELSE "apart"

NoTick ==
    [ticked |-> FALSE, pre_score |-> 0, pre_lives |-> 0, pre_level |-> 0,
     pre_multiplier |-> 1,
     pellets |-> 0, power_pellets |-> 0,
     armed |-> [timer |-> 0, multiplier |-> 1, vulnerable |-> << >>],
     player_tp |-> None, vulnerable_start |-> << >>,
     vulnerable_pre |-> << >>, vulnerable_post |-> << >>,
     prev_expired |-> FALSE, prev_vulnerable |-> << >>,
     enemy_tp |-> << >>, enemies_after_teleport |-> << >>,
     changes |-> << >>, processed |-> << >>, dead |-> FALSE, complete |-> FALSE,
     window_catches |-> 0,
     fresh |-> FALSE, prev_caught |-> {}, speeds |-> << >>, moved |-> << >>,
     pre_lives_gained |-> 0, resolved_score |-> 0,
     player_tile |-> TilePoint(0, 0), tile_before |-> "Empty", tile_after |-> "Empty",
     contact_pre |-> << >>, contact_post |-> << >>,
     resolved_multiplier |-> 1, enemies_resolved |-> << >>,
     player_resolved_unchanged |-> TRUE, left_and_right |-> FALSE,
     board_kept |-> TRUE, after_fatal_completion |-> FALSE]

Init ==
    /\ config \in Configs
    /\ LET s == State_try_new(config)
       IN  /\ score = s.score
           /\ lives = s.lives
           /\ level = s.level
           /\ vulnerability_timer = s.vulnerability_timer
           /\ enemies_caught_multiplier = s.enemies_caught_multiplier
           /\ lives_gained = s.lives_gained
           /\ player = s.player
           /\ enemies = s.enemies
           /\ board = s.board
    /\ aborted = FALSE
    /\ last = NoTick

deaths == config.start_lives + lives_gained - lives

in_range(b, t) ==
    /\ t.tx >= -MaxOffBoard /\ t.tx <= b.width - 1 + MaxOffBoard
    /\ t.ty >= -MaxOffBoard /\ t.ty <= b.height - 1 + MaxOffBoard

Explored ==
    /\ ~ aborted
    /\ level <= MaxLevel
    /\ \/ deaths < MaxDeaths
       \/ deaths = MaxDeaths /\ board_complete(board)
    /\ Len(player.history) <= MaxHistory
    /\ \A i \in 1 .. Len(enemies) : in_range(board, to_tile(enemies[i].position))

\* The inputs that differ for the player of s: the buttons are read only
\* by the player's arm of choose_next_tile, which Mob::update calls when
\* the movement leaves no step target.
\* The inputs of one tick.  A player under way reads no button; an idle one
\* reads any single button or none, and left and right together where the
\* two differ in outcome (the left tile blocked, the right one free).
buttons_read(m, b) ==
    IF is_some(m.step) THEN {NoButtons}
    ELSE IF is_none(can_move(b, to_tile(m.position), "Left"))
            /\ is_some(can_move(b, to_tile(m.position), "Right"))
    THEN Buttons \cup {LeftAndRight}
    ELSE Buttons

ButtonChoices(s) ==
    buttons_read(move_toward_step(seed_history(s.player, s.board), s.board), s.board)

\* A panic leaves a dead program.
Abort ==
    /\ aborted' = TRUE
    /\ UNCHANGED <<config, score, lives, level, vulnerability_timer,
                   enemies_caught_multiplier, lives_gained, player, enemies,
                   board, last>>

\* update_mut returns with state s, having observed `observed`.
Return(s, observed) ==
    /\ score' = s.score
    /\ lives' = s.lives
    /\ level' = s.level
    /\ vulnerability_timer' = s.vulnerability_timer
    /\ enemies_caught_multiplier' = s.enemies_caught_multiplier
    /\ lives_gained' = s.lives_gained
    /\ player' = s.player
    /\ enemies' = s.enemies
    /\ board' = s.board
    /\ last' = observed
    /\ UNCHANGED <<config, aborted>>

\* One call of update_mut(buttons), statement by statement: s2 is the state
\* after line 967, s3 after 973, s5 after 983, s6 after 1003, s7 after 1015,
\* s8 after 1036, acc after 1082, s9 after 1087, s10 after 1104.
UpdateMut ==
    /\ Explored
    /\ \E buttons \in ButtonChoices(Core) :
       \E pu \in {Mob_update(player, buttons, board, config.history_limit, 1)} :
         IF pu.panic THEN Abort
         ELSE
           \E s2 \in {take_player_update(config, Core, pu)} :
           \E s3 \in {clear_vulnerability(s2)} :
           \E s5 \in {decrement_timer(teleport_player(s3))} :
           \E s6 \in {set_enemy_speeds(config, s5)} :
           \E picks \in PickChoices(s6) :
           \E me \in {move_enemies(config, s6, picks)} :
             IF me.panic THEN Abort
             ELSE
               \E s7 \in {[s6 EXCEPT !.enemies = me.enemies]} :
               \E tv \in {teleport_vec(s7)} :
               \E s8 \in {teleport_enemies(s7, tv)} :
               \E changes \in {collisions(s5) \o collisions(s7)} :
               \E acc \in {resolve_changes(config,
                                [s |-> s8, recently_caught |-> RECENTLY_CAUGHT_INIT,
                                 dead |-> FALSE, processed |-> << >>], changes, 1)} :
               \E s9 \in {life_gain(config, acc.s)} :
               \E s10 \in {IF acc.dead THEN player_death(config, s9, score)
                            ELSE next_level(config, s9)} :
               \E upd \in {IF is_some(pu.update) THEN unwrap(pu.update)
                            ELSE BoardUpdate(0, 0)} :
                 Return(s10,
                     [ticked |-> TRUE,
                      pre_score |-> score,
                      pre_lives |-> lives,
                      pre_level |-> level,
                      pre_multiplier |-> enemies_caught_multiplier,
                      pellets |-> upd.pellets_collected,
                      power_pellets |-> upd.power_pellets_collected,
                      armed |-> [timer |-> s2.vulnerability_timer,
                                 multiplier |-> s2.enemies_caught_multiplier,
                                 vulnerable |-> vulnerable_flags(s2)],
                      player_tp |-> teleport_from(s3, s3.player),
                      vulnerable_start |-> vulnerable_flags(Core),
                      vulnerable_pre |-> vulnerable_flags(s5),
                      vulnerable_post |-> vulnerable_flags(s7),
                      prev_expired |-> last.ticked /\ last.armed.timer = 1,
                      prev_vulnerable |-> last.vulnerable_post,
                      enemy_tp |-> collect([i \in 1 .. Len(s7.enemies) |->
                                      teleport_from(s7, s7.enemies[i])]),
                      enemies_after_teleport |-> s8.enemies,
                      changes |-> changes,
                      processed |-> acc.processed,
                      dead |-> acc.dead,
                      complete |-> (~ acc.dead) /\ board_complete(s9.board),
                      window_catches |->
                          (IF upd.power_pellets_collected > 0 THEN 0
                           ELSE last.window_catches) + Len(acc.processed),
                      fresh |-> (~ last.ticked) \/ last.complete,
                      prev_caught |-> {last.processed[j].eid : j \in 1 .. Len(last.processed)},
                      speeds |-> collect([i \in 1 .. Len(s6.enemies) |-> s6.enemies[i].speed]),
                      moved |-> collect([i \in 1 .. Len(s6.enemies) |->
                                   s7.enemies[i].position # s6.enemies[i].position]),
                      pre_lives_gained |-> lives_gained,
                      resolved_score |-> acc.s.score,
                      player_tile |-> to_tile(pu.mob.position),
                      tile_before |-> get_tile(board, to_tile(pu.mob.position)),
                      tile_after |-> get_tile(pu.board, to_tile(pu.mob.position)),
                      contact_pre |-> collect([i \in 1 .. Len(s5.enemies) |->
                                         contact(s5.player.position, s5.enemies[i].position)]),
                      contact_post |-> collect([i \in 1 .. Len(s7.enemies) |->
                                          contact(s7.player.position, s7.enemies[i].position)]),
                      resolved_multiplier |-> acc.s.enemies_caught_multiplier,
                      enemies_resolved |-> acc.s.enemies,
                      player_resolved_unchanged |-> acc.s.player = s8.player,
                      left_and_right |-> buttons.left /\ buttons.right,
                      board_kept |-> s10.board = pu.board,
                      after_fatal_completion |->
                          last.ticked /\ last.dead /\ board_complete(board)])

Next == UpdateMut

Spec == Init /\ [][Next]_vars

\* ---------------------------------------------------------------------------
\* query_json: the enemy queries by ordinal.  args is a JSON value: an
\* integer, or something that is no integer.
Queries == {"enemy_tile", "enemy_caught"}

QueryArgs ==
    {[kind |-> "integer", value |-> n] : n \in -1 .. MaxQueryIndex}
        \cup {[kind |-> "string", value |-> 0]}

\* Value::as_u64: Some for a non-negative integer, None for anything else.
as_u64(args) ==
    IF args.kind = "integer" /\ args.value >= 0 THEN Some(args.value) ELSE None

\* [result, panic]: the Ok value, or "BadInputArg"; state.enemies[index]
\* panics when index is not below the number of enemies.
query_json(es, query, args) ==
    IF is_none(as_u64(args)) THEN [result |-> "BadInputArg", panic |-> FALSE]
    ELSE IF unwrap(as_u64(args)) >= Len(es) THEN [result |-> "panic", panic |-> TRUE]
    ELSE IF query = "enemy_tile"
    THEN [result |-> to_tile(es[unwrap(as_u64(args)) + 1].position), panic |-> FALSE]
    ELSE [result |-> es[unwrap(as_u64(args)) + 1].caught, panic |-> FALSE]

QueryJson ==
    /\ ~ aborted
    /\ \E query \in Queries : \E args \in QueryArgs :
          IF query_json(enemies, query, args).panic THEN Abort ELSE UNCHANGED vars

QueryNext == UpdateMut \/ QueryJson

QuerySpec == Init /\ [][QueryNext]_vars

(***************************************************************************)
(* Properties.                                                             *)
(***************************************************************************)
AtStart(mob, start) == mob.position = to_world(start) /\ is_none(mob.step)

\* C1: in a tick that records a PlayerDeath, the score after the tick is
\* the score at the start of the tick, whatever was credited during it.
C1_DeathRestoresScore ==
    (last.ticked /\ last.dead) => score = last.pre_score

\* A death tick in which a pellet or a catch was credited.
C1_Witness ==
    /\ last.ticked /\ last.dead
    /\ (last.pellets > 0 \/ Len(last.processed) > 0)

\* C2: in a tick that records a PlayerDeath, lives after the tick are the
\* lives before the tick minus exactly one.
C2_DeathCostsOneLife ==
    (last.ticked /\ last.dead) => lives = last.pre_lives - 1

\* C3: in a tick that records a PlayerDeath, no enemy differs after the
\* tick from what it was right after the enemies' teleports, and the player
\* is on its start tile with no step target.
C3_DeathLeavesEnemies ==
    (last.ticked /\ last.dead) =>
        /\ enemies = last.enemies_after_teleport
        /\ AtStart(player, config.player_start)

Pow2(n) == 2 ^ n
AllFlags(flags, v) == \A i \in 1 .. Len(flags) : flags[i] = v

C5_ExpiryClearsNextTick ==
    last.ticked =>
        /\ (last.armed.timer = 1 =>
               \A i \in 1 .. Len(last.vulnerable_start) :
                   last.vulnerable_start[i] =>
                       last.vulnerable_pre[i] /\ last.vulnerable_post[i])
        /\ ((last.prev_expired /\ last.power_pellets = 0) =>
               /\ AllFlags(last.vulnerable_pre, FALSE)
               /\ AllFlags(last.vulnerable_post, FALSE))

\* The tick after the timer reached zero with an enemy still vulnerable,
\* with no power pellet collected in it.
C5_Witness ==
    /\ last.ticked /\ last.prev_expired /\ last.power_pellets = 0
    /\ \E i \in 1 .. Len(last.prev_vulnerable) : last.prev_vulnerable[i]

C7_OneAwardPerEnemy ==
    last.ticked =>
        \A j, k \in 1 .. Len(last.processed) :
            last.processed[j].eid = last.processed[k].eid => j = k

\* C8: a tick without PlayerDeath that ends on a board with no collectable
\* raises level by one, zeroes the timer and puts the player and every enemy
\* on their start tiles with no step target and vulnerable = FALSE; any other
\* tick leaves level unchanged.
C8_LevelCompletion ==
    last.ticked =>
        IF last.complete
        THEN /\ level = last.pre_level + 1
             /\ vulnerability_timer = 0
             /\ AtStart(player, config.player_start) /\ ~ player.vulnerable
             /\ \A i \in 1 .. Len(enemies) :
                    AtStart(enemies[i], config.enemies[i].start) /\ ~ enemies[i].vulnerable
        ELSE level = last.pre_level

\* A level completed while the vulnerability timer was running and an
\* enemy was away from its start tile.
C8_Witness ==
    /\ last.ticked /\ last.complete /\ last.armed.timer > 1
    /\ \E i \in 1 .. Len(enemies) :
           ~ AtStart(last.enemies_after_teleport[i], config.enemies[i].start)

\* C9: on level completion the board becomes the board parsed from the
\* configuration the game was constructed with.
C9_BoardFromConfig ==
    (last.ticked /\ last.complete) => board = unwrap(Board_try_new(config.board))

\* The tile mirrored to the opposite horizontal edge, same row.
mirrored(b, t) == TilePoint(b.width - 1 - t.tx, t.ty)
Landed(mob, b, from) ==
    /\ mob.position = to_world(mirrored(b, from))
    /\ is_tp(b, mirrored(b, from))
    /\ is_none(mob.step)

\* C10: a mob standing on a Teleport tile when its teleport check runs ends
\* the tick on the Teleport tile mirrored to the opposite edge of its row,
\* tile-aligned, with no step target (a mob the tick resets afterwards aside).
C10_TeleportMirrors ==
    (last.ticked /\ ~ last.dead /\ ~ last.complete) =>
        /\ is_some(last.player_tp) => Landed(player, board, unwrap(last.player_tp))
        /\ \A i \in 1 .. Len(enemies) :
               (is_some(last.enemy_tp[i])
                   /\ \A j \in 1 .. Len(last.processed) : last.processed[j].eid # i - 1)
               => Landed(enemies[i], board, unwrap(last.enemy_tp[i]))

\* ---------------------------------------------------------------------------
\* Board construction on its own: the grids handed to Board::try_new.
\* "x" stands for every character new_from_char does not map.
GridChars == {"e", "=", "p", "#", "h", "t", "x"}

GridRows == UNION {[1 .. n -> GridChars] : n \in 0 .. MaxGridCols}

Grids == UNION {[1 .. m -> GridRows] : m \in 0 .. MaxGridRows}

Pending == [outcome |-> "Pending"]

BoardInit ==
    /\ config \in {[board |-> g] : g \in Grids}
    /\ board = None
    /\ last = Pending
    /\ aborted = FALSE
    /\ score = 0 /\ lives = 0 /\ level = 0
    /\ vulnerability_timer = 0 /\ enemies_caught_multiplier = 0 /\ lives_gained = 0
    /\ player = None /\ enemies = << >>

TryNew ==
    /\ last = Pending /\ ~ aborted
    /\ IF Board_try_new_panics(config.board)
       THEN aborted' = TRUE /\ UNCHANGED <<board, last>>
       ELSE \E res \in {Board_try_new(config.board)} :
              IF is_some(res)
              THEN board' = unwrap(res) /\ last' = [outcome |-> "Ok"] /\ aborted' = aborted
              ELSE last' = [outcome |-> "Err"] /\ UNCHANGED <<board, aborted>>
    /\ UNCHANGED <<config, score, lives, level, vulnerability_timer,
                   enemies_caught_multiplier, lives_gained, player, enemies>>

BoardNext == TryNew

BoardSpec == BoardInit /\ [][BoardNext]_vars

C12_UpdateNeverAborts == ~ aborted

\* C13: a fresh reset (game start or level completion) staggers the enemies:
\* enemy i starts with an immobilization countdown of i * start_immobilized_base,
\* so in the tick that follows a fresh reset every enemy after the first,
\* its countdown still positive, has speed zero in step 7 and does not move in
\* step 8, and cannot leave its start tile before the enemies before it.
C13_FreshResetStaggers ==
    (last.ticked /\ last.fresh /\ config.start_immobilized_base > 0) =>
        \A i \in 2 .. Len(last.speeds) : last.speeds[i] = 0 /\ ~ last.moved[i]

\* C14: a caught enemy is frozen: in the tick after its catch its
\* immobilization countdown, started at immobilized_time, is still positive,
\* so its speed is zero in step 7 and its position does not change in step 8.
C14_CaughtEnemyFrozen ==
    (last.ticked /\ ~ last.fresh /\ config.immobilized_time > 1) =>
        \A eid \in last.prev_caught :
            last.speeds[eid + 1] = 0 /\ ~ last.moved[eid + 1]

RECURSIVE awards_total(_)
awards_total(processed) ==
    IF processed = << >> THEN 0
    ELSE processed[1].award + awards_total(Tail(processed))

C17_ToTileFloors ==
    \A mob \in {player} \cup {enemies[i] : i \in 1 .. Len(enemies)} :
        /\ to_tile(mob.position)
               = TilePoint(mob.position.x \div TILE_SIZE, mob.position.y \div TILE_SIZE)
        /\ is_some(mob.step) => to_tile(to_world(unwrap(mob.step))) = unwrap(mob.step)

all_mapped(lines) ==
    \A r \in 1 .. Len(lines) : \A c \in 1 .. Len(lines[r]) : lines[r][c] # "x"

is_ragged(lines) ==
    \E r \in 1 .. Len(lines) : Len(lines[r]) # Len(lines[1])

\* C18: once Board::try_new has run on a grid, it has succeeded exactly when
\* every character of every row is one of '#', '=', 'p', 'e', 'h', 't'; the
\* board it built has the grid's row count as height, the row length as
\* width and, at every position, the tile the character maps to; a grid
\* with any other character gave an error.
C18_ConstructionByCharacters ==
    (last # Pending \/ aborted) =>
        /\ (last.outcome = "Ok") <=> all_mapped(config.board)
        /\ (~ all_mapped(config.board)) => last.outcome = "Err"
        /\ last.outcome = "Ok" =>
              /\ board.height = Len(config.board)
              /\ board.width = Len(config.board[1])
              /\ \A r \in 1 .. Len(config.board) :
                    /\ Len(board.tiles[r]) = Len(config.board[r])
                    /\ \A c \in 1 .. Len(config.board[r]) :
                          board.tiles[r][c] =
                              (CASE config.board[r][c] = "#" -> "Wall"
                                 [] config.board[r][c] = "=" -> "Pellet"
                                 [] config.board[r][c] = "p" -> "PowerPellet"
                                 [] config.board[r][c] = "e" -> "Empty"
                                 [] config.board[r][c] = "h" -> "House"
                                 [] config.board[r][c] = "t" -> "Teleport")

\* C19: Board::try_new on a grid whose rows differ in length, or that has no
\* rows, returns an error: it neither builds a board nor aborts.
C19_MalformedGridFails ==
    ((last # Pending \/ aborted)
        /\ (is_ragged(config.board) \/ Len(config.board) = 0)) =>
        last.outcome = "Err" /\ ~ aborted

\* The ids (row * width + column) of the walkable tiles of b that have more
\* than two walkable orthogonal neighbours (a position outside the grid reads
\* as Empty) or lie at a grid corner.
junction_ids(b) ==
    { id \in 0 .. (b.width * b.height - 1) :
        \E x \in {id % b.width} : \E y \in {id \div b.width} :
            /\ walkable(get_tile(b, TilePoint(x, y)))
            /\ \/ Cardinality({ t \in { TilePoint(x + 1, y), TilePoint(x, y + 1),
                                        TilePoint(x - 1, y), TilePoint(x, y - 1) } :
                                  walkable(get_tile(b, t)) }) > 2
               \/ (x \in {0, b.width - 1} /\ y \in {0, b.height - 1}) }

\* The board is written by State::try_new, by a collection and by the reset
\* that follows a level's completion, and by nothing else: a state in which
\* none of them has just happened holds the board of the state before it.
board_is_new ==
    \/ ~ last.ticked
    \/ last.complete
    \/ last.pellets + last.power_pellets > 0

BoardWrittenOnlyWhenNew == [][board' # board => board_is_new']_vars

\* C20: in every reachable state the board's junction set is the set its
\* current tiles give: collecting pellets and power pellets empties tiles
\* without changing it.
C20_JunctionsMatchTiles == board.junctions = junction_ids(board)

\* A tick has just emptied a tile that is a junction of a board that still
\* holds something to collect.
C20_Witness ==
    /\ last.ticked /\ ~ last.complete
    /\ last.pellets + last.power_pellets > 0
    /\ is_junction(board, last.player_tile)
    /\ get_tile(board, last.player_tile) = "Empty"
    /\ ~ board_complete(board)

grid_tiles(b) ==
    { TilePoint(x, y) : x \in 0 .. (b.width - 1), y \in 0 .. (b.height - 1) }

same_elsewhere(b1, b2, t) ==
    /\ b1.width = b2.width /\ b1.height = b2.height /\ b1.junctions = b2.junctions
    /\ \A u \in grid_tiles(b1) : u # t => get_tile(b1, u) = get_tile(b2, u)

\* C21: on every tile of the board, collect_pellet returns true exactly when
\* the tile is a Pellet and then makes that tile, and no other, Empty; a
\* second collect_pellet on the result returns false and changes nothing; on
\* any other tile it returns false and leaves the board as it is; the same
\* holds of collect_power_pellet and PowerPellet.
C21_CollectOnce ==
    (board_is_new /\ ~ aborted) =>
    \A t \in grid_tiles(board) :
        \E r \in {collect_pellet(board, t)} : \E p \in {collect_power_pellet(board, t)} :
            /\ r.changed <=> (get_tile(board, t) = "Pellet")
            /\ p.changed <=> (get_tile(board, t) = "PowerPellet")
            /\ r.changed => /\ get_tile(r.board, t) = "Empty"
                            /\ same_elsewhere(r.board, board, t)
                            /\ collect_pellet(r.board, t) = [board |-> r.board, changed |-> FALSE]
            /\ p.changed => /\ get_tile(p.board, t) = "Empty"
                            /\ same_elsewhere(p.board, board, t)
                            /\ collect_power_pellet(p.board, t)
                                   = [board |-> p.board, changed |-> FALSE]
            /\ (~ r.changed) => r.board = board
            /\ (~ p.changed) => p.board = board

\* A tick has just collected the Pellet the player stands on, so a second
\* collection on that tile finds it Empty, while a PowerPellet is still on
\* the board.
C21_Witness ==
    /\ last.ticked /\ ~ aborted /\ ~ last.dead
    /\ last.pellets = 1 /\ last.power_pellets = 0
    /\ last.tile_before = "Pellet" /\ last.tile_after = "Empty"
    /\ level = 1
    /\ tile_index_ok(board, last.player_tile)
    /\ config.board[last.player_tile.ty + 1][last.player_tile.tx + 1] = "="
    /\ \E t \in grid_tiles(board) : get_tile(board, t) = "PowerPellet"

remaining(b) ==
    Cardinality({ t \in grid_tiles(b) : get_tile(b, t) = "Pellet" })
        + Cardinality({ t \in grid_tiles(b) : get_tile(b, t) = "PowerPellet" })

after_collect(b, t) == collect_power_pellet(collect_pellet(b, t).board, t).board

\* C22: board_complete is true exactly when the board holds no Pellet and no
\* PowerPellet: it is so of the current board and of the board every single
\* collection leaves, and a board that is complete stays complete under any
\* further collect_pellet and collect_power_pellet.
C22_CompleteWhenNothingLeft ==
    (board_is_new /\ ~ aborted) =>
        /\ board_complete(board) <=> (remaining(board) = 0)
        /\ \A t \in grid_tiles(board) :
              \E b2 \in {after_collect(board, t)} :
                 /\ board_complete(b2) <=> (remaining(b2) = 0)
                 /\ board_complete(b2) =>
                       \A u \in grid_tiles(b2) :
                          /\ board_complete(collect_pellet(b2, u).board)
                          /\ board_complete(collect_power_pellet(b2, u).board)

\* A tick has just collected a Pellet and left a single PowerPellet and
\* nothing else to collect: the board is not complete, and collecting that
\* tile completes it.
C22_Witness ==
    /\ last.ticked /\ ~ aborted /\ last.pellets > 0
    /\ remaining(board) = 1 /\ ~ board_complete(board)
    /\ \E t \in grid_tiles(board) :
          get_tile(board, t) = "PowerPellet" /\ board_complete(after_collect(board, t))

all_mobs == {player} \cup {enemies[i] : i \in 1 .. Len(enemies)}

toward(from, to, speed) ==
    IF to > from THEN from + speed ELSE IF to < from THEN from - speed ELSE from

\* C23: for every mob with a step target, the movement part of its update
\* puts it exactly on the target's world point and clears the target when
\* the target is closer than speed on both axes; otherwise it moves the mob
\* by exactly speed toward the target on each axis where they differ and
\* keeps the target.
C23_SnapOrStep ==
    (~ aborted) =>
    \A mob \in all_mobs :
        is_some(mob.step) =>
            \E m2 \in {move_toward_step(mob, board)} :
            \E w \in {to_world(unwrap(mob.step))} :
                IF Abs(w.x - mob.position.x) < mob.speed
                      /\ Abs(w.y - mob.position.y) < mob.speed
                THEN m2.position = w /\ is_none(m2.step)
                ELSE /\ m2.step = mob.step
                     /\ m2.position.x = toward(mob.position.x, w.x, mob.speed)
                     /\ m2.position.y = toward(mob.position.y, w.y, mob.speed)

\* The player is under way, short of its target by less than its speed, and
\* an enemy is a full speed or more away from its own.
C23_Witness ==
    /\ last.ticked /\ ~ aborted
    /\ is_some(player.step)
    /\ to_world(unwrap(player.step)) # player.position
    /\ Abs(to_world(unwrap(player.step)).x - player.position.x) < player.speed
    /\ Abs(to_world(unwrap(player.step)).y - player.position.y) < player.speed
    /\ \E i \in 1 .. Len(enemies) :
          /\ is_some(enemies[i].step)
          /\ \/ Abs(to_world(unwrap(enemies[i].step)).x - enemies[i].position.x)
                    >= enemies[i].speed
             \/ Abs(to_world(unwrap(enemies[i].step)).y - enemies[i].position.y)
                    >= enemies[i].speed

\* The tile points up to MaxOffBoard + 1 tiles outside the grid of b.
off_board(b) ==
    { TilePoint(x, y) : x \in (-MaxOffBoard - 1) .. (b.width + MaxOffBoard),
                        y \in (-MaxOffBoard - 1) .. (b.height + MaxOffBoard) }
        \ grid_tiles(b)

\* C24: every tile point outside the grid reads as Empty, so can_move and
\* the player's target test return it as a walkable target from each of its
\* neighbours, while tile_id, get_junction_id and is_junction give no id and
\* no junction for it.
C24_OffBoardReadsEmpty ==
    (board_is_new /\ ~ aborted) =>
    \A t \in off_board(board) :
        /\ get_tile(board, t) = "Empty"
        /\ is_none(tile_id(board, t))
        /\ is_none(get_junction_id(board, t))
        /\ ~ is_junction(board, t)
        /\ \A i \in 1 .. Len(Directions) :
              \E u \in {TilePoint(t.tx - delta(Directions[i])[1],
                                  t.ty - delta(Directions[i])[2])} :
                 /\ can_move(board, u, Directions[i]) = Some(t)
                 /\ \A buttons \in Buttons :
                       input_direction(buttons) = Some(Directions[i]) =>
                           choose_next_tile(PlayerAI, u, buttons, board, 1).target = Some(t)

\* A tick has just collected from the board while a mob is heading for a
\* tile outside the grid and a mob stands on one.
C24_Witness ==
    /\ last.ticked /\ ~ aborted /\ last.pellets + last.power_pellets > 0
    /\ \E mob \in all_mobs :
          /\ is_some(mob.step)
          /\ unwrap(mob.step) \in off_board(board)
    /\ \E mob \in all_mobs : to_tile(mob.position) \in off_board(board)

\* C25: enemy_tile and enemy_caught, asked with an argument that is no valid
\* enemy index (no integer, a negative one, or one at or beyond the number of
\* enemies), return the BadInputArg error to the caller and never abort.
C25_BadIndexIsAnError ==
    \A query \in Queries : \A args \in QueryArgs :
        (args.kind # "integer" \/ args.value < 0 \/ args.value >= Len(enemies)) =>
            /\ ~ query_json(enemies, query, args).panic
            /\ query_json(enemies, query, args).result = "BadInputArg"

\* What one collision check records: for each enemy in index order whose
\* tile is the player's, a PlayerDeath, or an EnemyCatch if it is vulnerable.
recorded(contacts, vulnerable) ==
    SelectSeq(collect([i \in 1 .. Len(contacts) |->
                  IF contacts[i] \notin {"point", "tile"} THEN Miss
                  ELSE IF vulnerable[i] THEN EnemyCatch(i - 1) ELSE PlayerDeath]),
              LAMBDA c : c # Miss)

\* C26: the events of a tick are those of the check before the enemies move
\* followed by those of the check after: in each, enemy i is a PlayerDeath
\* when its tile is the player's and it is not vulnerable, an EnemyCatch(i)
\* when the tiles are equal and it is vulnerable, and is not recorded
\* otherwise; two positions inside one tile collide, adjacent tiles do not.
C26_CollisionByTile ==
    last.ticked =>
        last.changes = recorded(last.contact_pre, last.vulnerable_pre)
                           \o recorded(last.contact_post, last.vulnerable_post)

\* A tick in which an enemy shared the player's tile at another position
\* inside it and was recorded, while an enemy on an adjacent tile was not.
C26_Witness ==
    /\ last.ticked /\ ~ aborted
    /\ \E i \in 1 .. Len(last.contact_post) : last.contact_post[i] = "tile"
    /\ \E i \in 1 .. Len(last.contact_pre) : last.contact_pre[i] = "adjacent"
    /\ Len(last.changes) = 1

\* The events of changes that come before its first PlayerDeath.
before_death(changes) ==
    SubSeq(changes, 1,
           (CHOOSE d \in 1 .. (Len(changes) + 1) :
               /\ \A k \in 1 .. (d - 1) : changes[k].kind # "PlayerDeath"
               /\ d <= Len(changes) => changes[d].kind = "PlayerDeath") - 1)

\* The enemy ids of a run of catches, an id that repeats the one just before
\* it left out.
RECURSIVE caught_in_order(_, _)
caught_in_order(events, previous) ==
    IF events = << >> THEN << >>
    ELSE IF events[1].eid = previous THEN caught_in_order(Tail(events), previous)
    ELSE <<events[1].eid>> \o caught_in_order(Tail(events), events[1].eid)

\* C27: events are resolved in the order they were recorded and a
\* PlayerDeath ends the resolution: the tick is a death exactly when one was
\* recorded, the catches processed are those recorded before it, in order,
\* and only they award score, double the multiplier and reset an enemy.
C27_DeathHaltsResolution ==
    last.ticked =>
        /\ last.dead <=> (\E k \in 1 .. Len(last.changes) :
                             last.changes[k].kind = "PlayerDeath")
        /\ collect([j \in 1 .. Len(last.processed) |-> last.processed[j].eid])
               = caught_in_order(before_death(last.changes), -1)
        /\ last.resolved_score = last.pre_score
               + last.pellets * config.score_increase_per_pellet
               + last.power_pellets * config.score_increase_per_power_pellet
               + awards_total(last.processed)
        /\ last.resolved_multiplier = last.armed.multiplier * Pow2(Len(last.processed))
        /\ \A i \in 1 .. Len(last.enemies_resolved) :
              (\A j \in 1 .. Len(last.processed) : last.processed[j].eid # i - 1) =>
                  last.enemies_resolved[i] = last.enemies_after_teleport[i]

\* A tick recorded a PlayerDeath and, after it, a catch.
C27_Witness ==
    /\ last.ticked /\ last.dead
    /\ \E k \in 1 .. Len(last.changes) : \E m \in 1 .. Len(last.changes) :
          /\ k < m
          /\ last.changes[k].kind = "PlayerDeath"
          /\ last.changes[m].kind = "EnemyCatch"

\* C28: every catch the tick processed leaves its enemy on the world point
\* of its configured start tile, with no step target, an empty history, its
\* heading back at start_dir and vulnerable false; every other enemy and the
\* player are as they were before the events were resolved.
C28_CatchResetsOnlyItsEnemy ==
    last.ticked =>
        /\ last.player_resolved_unchanged
        /\ \A i \in 1 .. Len(last.enemies_resolved) :
              IF \E j \in 1 .. Len(last.processed) : last.processed[j].eid = i - 1
              THEN last.enemies_resolved[i] =
                       [last.enemies_after_teleport[i] EXCEPT
                           !.position = WorldPoint(config.enemies[i].start.tx * TILE_SIZE,
                                                   config.enemies[i].start.ty * TILE_SIZE),
                           !.step = None,
                           !.history = << >>,
                           !.ai.dir = config.enemies[i].start_dir,
                           !.caught = FALSE,
                           !.vulnerable = FALSE]
              ELSE last.enemies_resolved[i] = last.enemies_after_teleport[i]

\* A tick processed the catch of an enemy that was under way, away from its
\* start and heading another way, while another enemy, vulnerable and away
\* from its start, was left alone.
C28_Witness ==
    /\ last.ticked /\ ~ aborted
    /\ \E j \in 1 .. Len(last.processed) :
          \E e \in {last.enemies_after_teleport[last.processed[j].eid + 1]} :
             /\ e.position # to_world(e.ai.start)
             /\ e.ai.dir # e.ai.start_dir
             /\ e.vulnerable
    /\ \E i \in 1 .. Len(last.enemies_resolved) :
          /\ \A j \in 1 .. Len(last.processed) : last.processed[j].eid # i - 1
          /\ last.enemies_resolved[i].vulnerable
          /\ last.enemies_resolved[i].position # to_world(last.enemies_resolved[i].ai.start)

\* C29: in every tick each enemy moves with the speed step 7 gives it: the
\* reduced speed (enemy_starting_speed - 4) if it is vulnerable once the
\* power pellet of the tick was armed and an expired vulnerability cleared,
\* the base speed otherwise; so in the tick that clears its vulnerability an
\* enemy is back at the base speed.
C29_SpeedFollowsVulnerability ==
    last.ticked =>
        /\ Len(last.speeds) = Len(last.vulnerable_pre)
        /\ \A i \in 1 .. Len(last.speeds) :
              last.speeds[i] = (IF last.vulnerable_pre[i]
                                THEN config.enemy_starting_speed - 4
                                ELSE config.enemy_starting_speed)
        /\ \A i \in 1 .. Len(last.speeds) :
              (last.vulnerable_start[i] /\ ~ last.vulnerable_pre[i]) =>
                  last.speeds[i] = config.enemy_starting_speed

\* The tick after the countdown ran out: an enemy that was vulnerable, and
\* slow, in the tick before is back at the base speed.
C29_Witness ==
    /\ last.ticked /\ ~ aborted /\ last.prev_expired
    /\ \E i \in 1 .. Len(last.speeds) :
          /\ i <= Len(last.prev_vulnerable)
          /\ last.prev_vulnerable[i]
          /\ last.vulnerable_start[i]
          /\ ~ last.vulnerable_pre[i]
          /\ last.speeds[i] = config.enemy_starting_speed

\* The buttons in the order the player decision reads them.
priority == <<"Left", "Right", "Up", "Down">>

pressed(buttons, d) ==
    CASE d = "Left" -> buttons.left
      [] d = "Right" -> buttons.right
      [] d = "Up" -> buttons.up
      [] d = "Down" -> buttons.down

\* C30: on the tile the player stands on, for every combination of pressed
\* buttons, the player decision returns no target when nothing is pressed;
\* otherwise it takes the first pressed of left, right, up, down and returns
\* the adjacent tile that way if it is walkable, and no target if it is a
\* Wall or a House, without trying another pressed direction.
C30_PlayerDecisionPriority ==
    (~ aborted) =>
    \A buttons \in [left : BOOLEAN, right : BOOLEAN, up : BOOLEAN, down : BOOLEAN] :
        \E r \in {choose_next_tile(player.ai, to_tile(player.position), buttons, board, 1)} :
            /\ ~ r.panic
            /\ IF \A k \in 1 .. 4 : ~ pressed(buttons, priority[k])
               THEN r.target = None
               ELSE \E k \in 1 .. 4 :
                      /\ pressed(buttons, priority[k])
                      /\ \A j \in 1 .. (k - 1) : ~ pressed(buttons, priority[j])
                      /\ \E t \in {TilePoint(to_tile(player.position).tx + delta(priority[k])[1],
                                             to_tile(player.position).ty + delta(priority[k])[2])} :
                            r.target = (IF get_tile(board, t) \in {"Wall", "House"}
                                        THEN None ELSE Some(t))

\* The player, idle after a tick with left and right both pressed, stands
\* where the tile to the left is a Wall and the tile to the right is not: it
\* got no target.
C30_Witness ==
    /\ last.ticked /\ ~ aborted /\ ~ last.dead /\ ~ last.complete
    /\ last.left_and_right
    /\ is_none(player.step)
    /\ get_tile(board, TilePoint(to_tile(player.position).tx - 1,
                                 to_tile(player.position).ty)) = "Wall"
    /\ walkable(get_tile(board, TilePoint(to_tile(player.position).tx + 1,
                                          to_tile(player.position).ty)))

\* The directions whose adjacent tile is walkable, as a set.
walkable_directions(b, t) ==
    { Directions[k] : k \in { j \in 1 .. Len(Directions) :
                                walkable(get_tile(b, tile_step(t, Directions[j]))) } }

\* C31: an enemy asked for a target on the tile it stands on keeps its
\* heading and targets the next tile in it when the tile is no junction and
\* that next tile is walkable, whatever the generator yields; otherwise it
\* takes a heading whose adjacent tile is walkable and targets that tile,
\* and every such heading is the answer for some value of the generator.
C31_EnemyKeepsOrRedecides ==
    \A i \in 1 .. Len(enemies) :
        \E t \in {to_tile(enemies[i].position)} : \E ai \in {enemies[i].ai} :
        \E answers \in {{ [pick |-> pick,
                           r |-> choose_next_tile(ai, t, NoButtons, board, pick)] :
                              pick \in Picks }} :
            IF (~ is_junction(board, t)) /\ walkable(get_tile(board, tile_step(t, ai.dir)))
            THEN \A a \in answers :
                    a.r = [ai |-> ai, target |-> Some(tile_step(t, ai.dir)), panic |-> FALSE]
            ELSE \E free \in {walkable_directions(board, t)} :
                 /\ \A a \in answers :
                       /\ ~ a.r.panic
                       /\ a.r.ai.dir \in free
                       /\ a.r.target = Some(tile_step(t, a.r.ai.dir))
                       /\ a.r.ai = [ai EXCEPT !.dir = a.r.ai.dir]
                 /\ \A d \in free : \E a \in answers : a.r.ai.dir = d

\* After a tick an enemy stands on a tile that is no junction, with its
\* heading free and other directions walkable as well.
C31_Witness ==
    /\ last.ticked /\ ~ aborted
    /\ \E i \in 1 .. Len(enemies) :
          \E t \in {to_tile(enemies[i].position)} :
             /\ ~ is_junction(board, t)
             /\ is_some(can_move(board, t, enemies[i].ai.dir))
             /\ Cardinality(walkable_directions(board, t)) > 1

\* The mob has a step target and this update ends on it: it is on it
\* already or within one step of it on both axes.
reaches_target(mob) ==
    /\ is_some(mob.step)
    /\ Abs(to_world(unwrap(mob.step)).x - mob.position.x) < mob.speed
    /\ Abs(to_world(unwrap(mob.step)).y - mob.position.y) < mob.speed

is_prefix(h, g) == Len(h) <= Len(g) /\ h = SubSeq(g, 1, Len(h))

\* What C32 says of the result r of an update, given buttons and pick, of a
\* mob that reaches its target: the history is a leading part of the old one
\* with the target's id in front when the target is a junction, and of the
\* old one alone when it is not; and the step target and the heading are the
\* answer of choose_next_tile on the tile the mob now stands on.
arrival_recorded(mob, r, buttons, pick) ==
    \E target \in {unwrap(mob.step)} : \E h0 \in {seed_history(mob, board).history} :
        /\ r.mob.position = to_world(target)
        /\ IF is_junction(board, target)
           THEN /\ Len(r.mob.history) >= 1
                /\ is_prefix(r.mob.history, <<unwrap(tile_id(board, target))>> \o h0)
           ELSE is_prefix(r.mob.history, h0)
        /\ \E ch \in {choose_next_tile(mob.ai, to_tile(to_world(target)), buttons, board, pick)} :
              r.mob.step = ch.target /\ r.mob.ai = ch.ai

\* C32: in an update in which a mob reaches its step target, by snap or by
\* being on it already, the target's id goes to the front of its history
\* exactly when the target is a junction, and the AI is asked in that same
\* update for the next target.
C32_ArrivalRecordsJunction ==
    /\ reaches_target(player) =>
          \A buttons \in Buttons :
             \E r \in {Mob_update(player, buttons, board, config.history_limit, 1)} :
                (~ r.panic) => arrival_recorded(player, r, buttons, 1)
    /\ \A i \in 1 .. Len(enemies) :
          reaches_target(enemies[i]) =>
             \A pick \in Picks :
                \E r \in {Mob_update(enemies[i], NoButtons, board, config.history_limit, pick)} :
                   (~ r.panic) => arrival_recorded(enemies[i], r, NoButtons, pick)

\* After a tick the player, with a history, is within one step of a
\* junction, and an enemy is within one step of a tile that is no junction.
C32_Witness ==
    /\ last.ticked /\ ~ aborted
    /\ reaches_target(player) /\ Len(player.history) >= 1
    /\ is_junction(board, unwrap(player.step))
    /\ to_world(unwrap(player.step)) # player.position
    /\ \E i \in 1 .. Len(enemies) :
          reaches_target(enemies[i]) /\ ~ is_junction(board, unwrap(enemies[i].step))

(***************************************************************************)
(* A game whose board has no junction: a walled lane of seven tiles with   *)
(* a pellet at either end, the player starting in the middle of it, and a  *)
(* walled chamber of four tiles for the one enemy.                          *)
(***************************************************************************)
LANE_BOARD ==
    << <<"#", "#", "#", "#", "#", "#", "#", "#", "#", "#", "#", "#", "#", "#">>,
       <<"#", "=", "e", "e", "e", "e", "e", "=", "#", "e", "e", "e", "e", "#">>,
       <<"#", "#", "#", "#", "#", "#", "#", "#", "#", "#", "#", "#", "#", "#">> >>

LaneConfig ==
    [CrossConfig EXCEPT !.board = LANE_BOARD,
                          !.player_start = TilePoint(4, 1),
                          !.enemies = << EnemyRandomMvmt(TilePoint(9, 1), "Right") >>]

\* The state State::try_new builds from the configuration cfg.
StartOf(cfg) ==
    /\ config = cfg
    /\ \E s \in {State_try_new(cfg)} :
           /\ score = s.score
           /\ lives = s.lives
           /\ level = s.level
           /\ vulnerability_timer = s.vulnerability_timer
           /\ enemies_caught_multiplier = s.enemies_caught_multiplier
           /\ lives_gained = s.lives_gained
           /\ player = s.player
           /\ enemies = s.enemies
           /\ board = s.board
    /\ aborted = FALSE
    /\ last = NoTick

LaneInit == StartOf(LaneConfig)

LaneSpec == LaneInit /\ [][Next]_vars

\* The player as its movement and its choice of a target leave it, before
\* the pellet check of the same update.
before_pellet_check(buttons) ==
    LET m2 == move_toward_step(seed_history(player, board), board)
    IN  IF is_none(m2.step)
        THEN [m2 EXCEPT !.step = choose_next_tile(m2.ai, to_tile(m2.position),
                                                  buttons, board, 1).target]
        ELSE m2

\* C33: every update of the player returns, and checks the tile the player
\* then occupies: a collectable tile becomes Empty (and no other tile
\* changes), the history becomes its leading entry alone and the delta
\* returned counts one collection; on any other tile the board and the
\* history stay as they are and no delta is returned.  This holds as well
\* of a player that has reached no junction since its reset.
C33_PlayerCollectsUnderfoot ==
    (~ aborted) =>
    \A buttons \in Buttons :
        \E m3 \in {before_pellet_check(buttons)} :
        \E r \in {Mob_update(player, buttons, board, config.history_limit, 1)} :
        \E t \in {to_tile(m3.position)} :
            /\ ~ r.panic
            /\ IF is_still_collectable(get_tile(board, t))
               THEN /\ get_tile(r.board, t) = "Empty"
                    /\ same_elsewhere(r.board, board, t)
                    /\ Len(m3.history) >= 1
                    /\ r.mob.history = <<m3.history[1]>>
                    /\ is_some(r.update)
                    /\ unwrap(r.update).pellets_collected
                           + unwrap(r.update).power_pellets_collected = 1
               ELSE r.board = board /\ r.mob.history = m3.history /\ is_none(r.update)
            /\ r.mob = [m3 EXCEPT !.history = r.mob.history]

\* The corridor game configured to keep no history at all.
NoHistoryConfig == [CorridorConfig EXCEPT !.history_limit = 0]

NoHistoryInit == StartOf(NoHistoryConfig)

NoHistorySpec == NoHistoryInit /\ [][Next]_vars

\* h is what pushing at most two new ids in front of old and then dropping
\* from the back, as far as the limit asks, leaves.
oldest_dropped(h, old, limit) ==
    \E n \in 0 .. 2 :
        /\ n <= Len(h)
        /\ is_prefix(SubSeq(h, n + 1, Len(h)), old)
        /\ (Len(h) - n < Len(old)) => Len(h) = limit

\* C34: after every tick every enemy's history holds at most history_limit
\* entries; an enemy's update drops entries from the old end of the history
\* only, returns no collection delta and leaves the board as it is.
C34_EnemyHistoryCapped ==
    /\ last.ticked =>
          \A i \in 1 .. Len(enemies) : Len(enemies[i].history) <= config.history_limit
    /\ \A i \in 1 .. Len(enemies) : \A pick \in Picks :
          \E r \in {Mob_update(enemies[i], NoButtons, board, config.history_limit, pick)} :
             (~ r.panic) =>
                /\ is_none(r.update)
                /\ r.board = board
                /\ oldest_dropped(r.mob.history, enemies[i].history, config.history_limit)

\* C35: the player's history never holds more than history_limit entries,
\* whatever the sequence of ticks, ticks with nothing left to collect on the
\* player's path included.
C35_PlayerHistoryBounded == Len(player.history) <= config.history_limit

\* C37: in every reachable state a mob with a step target differs from the
\* target's world point on one axis at most, and a mob with no step target
\* stands exactly on a tile's world point.
C37_AxisAligned ==
    \A mob \in all_mobs :
        IF is_some(mob.step)
        THEN \/ to_world(unwrap(mob.step)).x = mob.position.x
             \/ to_world(unwrap(mob.step)).y = mob.position.y
        ELSE mob.position.x % TILE_SIZE = 0 /\ mob.position.y % TILE_SIZE = 0

\* A tick has just teleported an enemy, which stands on its landing tile
\* with no step target, while the player is under way between two tiles.
C37_Witness ==
    /\ last.ticked /\ ~ aborted /\ ~ last.dead
    /\ \E i \in 1 .. Len(enemies) :
          /\ is_some(last.enemy_tp[i])
          /\ is_none(enemies[i].step)
    /\ is_some(player.step)
    /\ player.position.x % TILE_SIZE # 0

\* The tile whose square holds the world point p.
tile_of(p) == TilePoint(p.x \div TILE_SIZE, p.y \div TILE_SIZE)

\* The tile the mob is put on by Mob::reset.
start_tile(mob) == IF is_player(mob) THEN config.player_start ELSE mob.ai.start

\* C36: a step target is a walkable tile next to the tile the mob stands on
\* when it is set, so a mob under way is never further than one tile from
\* its target, on one axis; and a mob whose start tile is walkable is always
\* on a walkable tile or on one outside the grid (which reads as Empty).
C36_StepsStayWalkable ==
    \A mob \in all_mobs :
        /\ is_some(mob.step) =>
              /\ walkable(get_tile(board, unwrap(mob.step)))
              /\ Abs(to_world(unwrap(mob.step)).x - mob.position.x)
                    + Abs(to_world(unwrap(mob.step)).y - mob.position.y) <= TILE_SIZE
        /\ walkable(get_tile(board, start_tile(mob))) =>
              walkable(get_tile(board, tile_of(mob.position)))

RECURSIVE is_power_of_two(_)
is_power_of_two(n) ==
    IF n = 1 THEN TRUE
    ELSE n > 1 /\ n % 2 = 0 /\ is_power_of_two(n \div 2)

AMBUSH_BOARD ==
    << <<"e", "e", "=", "e", "e">> >>

AmbushConfig ==
    [CrossConfig EXCEPT !.board = AMBUSH_BOARD,
                          !.player_start = TilePoint(1, 0),
                          !.enemies = << EnemyRandomMvmt(TilePoint(2, 0), "Right") >>]

AmbushInit == StartOf(AmbushConfig)

AmbushSpec == AmbushInit /\ [][Next]_vars

\* C39: a tick that records a PlayerDeath leaves the level as it was and
\* keeps the board the player's update left, the tile collected in that
\* tick Empty; a tick that follows a death tick which left the board
\* complete goes to the next level if it records no PlayerDeath and stays on
\* the level if it records one.
C39_DeathDefersLevel ==
    /\ (last.ticked /\ last.dead) =>
          /\ level = last.pre_level
          /\ last.board_kept
          /\ ~ last.complete
          /\ last.pellets + last.power_pellets > 0 =>
                get_tile(board, last.player_tile) = "Empty"
    /\ (last.ticked /\ last.after_fatal_completion) =>
          IF last.dead
          THEN level = last.pre_level /\ board_complete(board)
          ELSE level = last.pre_level + 1 /\ last.complete /\ ~ last.board_kept

\* The tick after a death tick that collected the last pellet records no
\* death and has gone to the next level.
C39_Witness ==
    /\ last.ticked /\ ~ aborted
    /\ last.after_fatal_completion /\ ~ last.dead
    /\ level = last.pre_level + 1
    /\ lives = config.start_lives - 1

\* C40: an update of a mob that has a step target and does not reach it
\* gives one result whatever the buttons and whatever the generator yields,
\* and leaves the step target and the heading as they were: the AI is asked
\* only when the update starts with no step target or its movement ends on
\* the target.
C40_TargetKeptMidStep ==
    \A mob \in all_mobs :
        (is_some(mob.step) /\ ~ reaches_target(mob)) =>
            \E first \in {Mob_update(mob, NoButtons, board, config.history_limit, 1)} :
                /\ first.mob.step = mob.step
                /\ first.mob.ai = mob.ai
                /\ \A buttons \in Buttons \cup {LeftAndRight} :
                      Mob_update(mob, buttons, board, config.history_limit, 1) = first
                /\ \A pick \in Picks :
                      Mob_update(mob, NoButtons, board, config.history_limit, pick) = first

\* After a tick the player, with a target chosen, is more than one step
\* from it, and an enemy slowed by its vulnerability stands on a junction
\* exactly one step from its own target.
C40_Witness ==
    /\ last.ticked /\ ~ aborted
    /\ is_some(player.step) /\ ~ reaches_target(player)
    /\ \E i \in 1 .. Len(enemies) :
          /\ is_some(enemies[i].step) /\ ~ reaches_target(enemies[i])
          /\ enemies[i].vulnerable
          /\ is_junction(board, to_tile(enemies[i].position))

====
